---- MODULE Spec2Model ----
(***************************************************************************)
(* lightning-enable-mcp: approval/budget engine (budget_service.py,        *)
(* price_service.py, config.py), L402 orchestrator (l402_client.py), the   *)
(* paying tools (tools/*.py, budget.py) and the relay wallet transport     *)
(* (nwc_wallet.py).                                                        *)
(*                                                                         *)
(* Units.  Satoshi amounts are integers.  USD amounts are integer cents    *)
(* (every Decimal the engine compares has been rounded to two places or    *)
(* comes from the configuration).  A BTC price is kept in thousands of USD *)
(* per BTC, so that sats * price / 10^8 dollars = sats * priceK / 1000     *)
(* cents.  Time is whole seconds.                                          *)
(***************************************************************************)
EXTENDS Integers, Sequences, FiniteSets, TLC

----------------------------------------------------------------------------
(* Bounds of the model *)

MaxTime == 2
MaxRequests == 2
MaxCalls == 2
MaxCount == 2
MaxPreimageLen == 3
MaxPayments == 2

----------------------------------------------------------------------------
(* Program constants *)

None == -1
Undecodable == -2
DatetimeMin == -100000
DEFAULT_FALLBACK_PRICE == 100
DEFAULT_CACHE_DURATION_SECONDS == 900
\* Decimal("999999999") of check_approval_level, kept as the same digits: it
\* exceeds every amount and limit of the model by orders of magnitude
UnlimitedSessionUsd == 999999999
FetchFailed == 0
THRESHOLDS_CACHE_SECONDS == 300

Prices == {50, 100}
FetchResults == {FetchFailed} \cup Prices
AmountsSats == {5, 1000, 20000, 80000}
CheckAmounts == AmountsSats \cup {5000, 200000}
SpendAmounts == {-1, 5, 20000, 80000}
ToolMaxSats == {1000, 80000}
Reqs == {"r1", "r2"}
Callers == {"a", "b"}
ConcAmounts == {1000, 80000}
ManagerAmounts == {500, 1000, 2000, 20000}
ManagerOverrides == {None, 500, 2000}
RecordAmounts == {500, 9500}
RecordStatuses == {"success", "failed", "pending"}
ManagerLimits == {<<None, None>>, <<1000, 10000>>, <<500, None>>}
ConfigureArgs == {<<500, 5000>>, <<None, 20000>>}
ConfigureToolArgs == {<<80000, 80000>>, <<0, 10000>>, <<1000, 0>>, <<2000, 1000>>}
DecodedInvoices == {Undecodable, 0, 500, 1000000, 80000000}
HttpStatuses == {200, 402, 500}
Flows == {"f1", "f2"}

Levels == {"AUTO_APPROVE", "LOG_AND_APPROVE", "FORM_CONFIRM", "URL_CONFIRM", "DENY"}

(* UserBudgetConfiguration snapshots the service can be started with *)
DefaultConfiguration ==
  [auto_approve |-> 100, log_and_approve |-> 500, form_confirm |-> 2500,
   url_confirm |-> 10000, max_per_payment |-> 50000, max_per_session |-> 10000,
   require_approval_for_first_payment |-> FALSE, cooldown_seconds |-> 2]

Configurations ==
  { DefaultConfiguration,
    [DefaultConfiguration EXCEPT !.require_approval_for_first_payment = TRUE,
                                 !.cooldown_seconds = 0],
    [DefaultConfiguration EXCEPT !.max_per_payment = 2000, !.cooldown_seconds = 0],
    [DefaultConfiguration EXCEPT !.max_per_payment = None, !.max_per_session = 0],
    [DefaultConfiguration EXCEPT !.max_per_payment = None, !.max_per_session = None] }

\* a per-payment limit below the session limit, with a cooldown
DenialConfigurations ==
  { [DefaultConfiguration EXCEPT !.max_per_payment = 2000] }

\* tiers under which the amounts the tools are called with fall in all four
\* approval levels
GateConfigurations ==
  { [DefaultConfiguration EXCEPT !.auto_approve = 50, !.form_confirm = 5000] }

----------------------------------------------------------------------------
VARIABLES
  config,            \* ConfigurationService._configuration
  now,               \* wall clock, seconds
  priceCache,        \* PriceService: [price, expiry]
  session,           \* BudgetService session tracking fields
  lastCheck,         \* the ApprovalCheckResult of the latest direct check
  sequential,        \* every record_spend so far followed its own approving check
  raised,            \* what the latest direct BudgetService call raised
  budget_manager,    \* legacy BudgetManager of the server
  flow,              \* the tool invocations in progress, one per flow id
  calls,             \* number of tool invocations started
  ws,                \* NWCWallet._ws: "none", or the socket's state
  ws_close_ok,       \* the socket was closed with a normal close code
  connected,         \* NWCWallet._connected
  listener,          \* NWCWallet._response_task
  pending,           \* keys of NWCWallet._pending_requests
  req,               \* the _send_request calls, one per request id
  replaced,          \* the socket and listener task a later connect() overwrote
  co,                \* concurrent check-pay-record flows, one per caller
  price_lock,        \* PriceService._lock: "free" or its holder
  budget_lock,       \* BudgetService._lock: "free" or its holder
  cache_source,      \* PriceService._cache_source
  thresholds_cache_expiry,  \* BudgetService._thresholds_cache_expiry
  recomputations,    \* threshold recomputations started while the cache was expired
  fetches,           \* upstream price fetches started while the price cache was expired
  lastStatus,        \* what the latest BudgetService.get_status call returned
  wallet_call,       \* the latest NWCWallet.pay_invoice call: response and outcome
  bm_last            \* the latest direct BudgetManager call and what it raised

budgetVars == <<config, now, priceCache, session, lastCheck, sequential, raised>>
toolVars == <<budget_manager, flow, calls>>
nwcVars == <<ws, ws_close_ok, connected, listener, pending, req, replaced>>
concVars == <<co, price_lock, budget_lock, cache_source, thresholds_cache_expiry,
              recomputations, fetches>>
callVars == <<lastStatus, wallet_call, bm_last>>
vars == <<config, now, priceCache, session, lastCheck, sequential, raised,
          budget_manager, flow, calls,
          ws, ws_close_ok, connected, listener, pending, req, replaced,
          co, price_lock, budget_lock, cache_source, thresholds_cache_expiry,
          recomputations, fetches, lastStatus, wallet_call, bm_last>>

----------------------------------------------------------------------------
(* Decimal helpers *)

Max(a, b) == IF a >= b THEN a ELSE b
Min(a, b) == IF a <= b THEN a ELSE b

\* round(Decimal, 2): ROUND_HALF_EVEN on n/d, n >= 0, d > 0
RoundHalfEven(n, d) ==
  LET q == n \div d
      r == n % d
  IN  IF 2 * r < d THEN q
      ELSE IF 2 * r > d THEN q + 1
      ELSE IF q % 2 = 0 THEN q ELSE q + 1

----------------------------------------------------------------------------
(* PriceService *)

\* get_btc_price at time t when an upstream fetch, if made, yields r
get_btc_price(cache, t, r) ==
  IF t < cache.expiry THEN cache
  ELSE IF r > 0
       THEN [price |-> r, expiry |-> t + DEFAULT_CACHE_DURATION_SECONDS]
       ELSE cache

get_cached_btc_price_AlwaysFallback(cache) == DEFAULT_FALLBACK_PRICE

get_cached_btc_price(cache) ==
  IF cache.price > 0 THEN cache.price ELSE DEFAULT_FALLBACK_PRICE

\* the upstream results a call at time t can see: none is asked for while
\* the cache is valid
FetchChoices(cache, t) == IF t < cache.expiry THEN {FetchFailed} ELSE FetchResults

\* sats -> USD cents at price p (thousands of USD per BTC)
sats_to_usd(sats, p) == RoundHalfEven(sats * p, 1000)

----------------------------------------------------------------------------
(* ApprovalCheckResult derived properties *)

can_proceed(level) == level # "DENY"
requires_confirmation_UrlOnly(level) == level = "URL_CONFIRM"

requires_confirmation(level) == level \in {"FORM_CONFIRM", "URL_CONFIRM"}

----------------------------------------------------------------------------
(* BudgetService *)

NewSession(t) ==
  [spent_sats |-> 0, spent_usd |-> 0, request_count |-> 0,
   session_started |-> t, last_payment_time |-> DatetimeMin,
   is_first_payment |-> TRUE]

_is_cooldown_elapsed_Strict(s, cfg, t) ==
  t - s.last_payment_time > cfg.cooldown_seconds

_is_cooldown_elapsed(s, cfg, t) ==
  t - s.last_payment_time >= cfg.cooldown_seconds

ExceedsSessionLimit_AtLimit(spentUsd, amountUsd, limit) == spentUsd + amountUsd >= limit

ExceedsSessionLimit_IgnoresAmount(spentUsd, amountUsd, limit) == spentUsd > limit

ExceedsSessionLimit(spentUsd, amountUsd, limit) == spentUsd + amountUsd > limit

ExceedsPaymentLimit(amountUsd, limit) == amountUsd > limit

TierLevel_StrictAuto(amountUsd, cfg) ==
  IF amountUsd < cfg.auto_approve THEN "AUTO_APPROVE"
  ELSE IF amountUsd <= cfg.log_and_approve THEN "LOG_AND_APPROVE"
  ELSE IF amountUsd <= cfg.form_confirm THEN "FORM_CONFIRM"
  ELSE "URL_CONFIRM"

TierLevel_FormUpToUrl(amountUsd, cfg) ==
  IF amountUsd <= cfg.auto_approve THEN "AUTO_APPROVE"
  ELSE IF amountUsd <= cfg.log_and_approve THEN "LOG_AND_APPROVE"
  ELSE IF amountUsd <= cfg.url_confirm THEN "FORM_CONFIRM"
  ELSE "URL_CONFIRM"

TierLevel(amountUsd, cfg) ==
  IF amountUsd <= cfg.auto_approve THEN "AUTO_APPROVE"
  ELSE IF amountUsd <= cfg.log_and_approve THEN "LOG_AND_APPROVE"
  ELSE IF amountUsd <= cfg.form_confirm THEN "FORM_CONFIRM"
  ELSE "URL_CONFIRM"

SessionLimitUsd(cfg) ==
  IF cfg.max_per_session # None /\ cfg.max_per_session # 0
  THEN cfg.max_per_session ELSE UnlimitedSessionUsd

check_approval_level_CooldownBeforePayment(amount_sats, p1, p2, s, cfg, t) ==
  LET amount_usd == sats_to_usd(amount_sats, p1)
      session_spent_usd == sats_to_usd(s.spent_sats, p2)
      remaining_session_usd == SessionLimitUsd(cfg) - session_spent_usd
      base == [amount_sats |-> amount_sats, amount_usd |-> amount_usd,
               session_spent_usd |-> session_spent_usd,
               cooldown_elapsed |-> _is_cooldown_elapsed(s, cfg, t),
               is_first_payment |-> s.is_first_payment,
               remaining_session_budget_usd |-> Max(0, remaining_session_usd)]
      cooldown_remaining == cfg.cooldown_seconds - (t - s.last_payment_time)
      out(level, why) ==
        base @@ [level |-> level, denial |-> why,
                 cooldown_remaining |-> IF why = "cooldown" THEN cooldown_remaining ELSE 0]
  IN  IF cfg.max_per_session # None
         /\ ExceedsSessionLimit(session_spent_usd, amount_usd, cfg.max_per_session)
      THEN out("DENY", "session")
      ELSE IF ~_is_cooldown_elapsed(s, cfg, t)
      THEN out("DENY", "cooldown")
      ELSE IF cfg.max_per_payment # None
              /\ ExceedsPaymentLimit(amount_usd, cfg.max_per_payment)
      THEN out("DENY", "payment")
      ELSE IF s.is_first_payment /\ cfg.require_approval_for_first_payment
      THEN out(IF amount_usd > cfg.form_confirm THEN "URL_CONFIRM" ELSE "FORM_CONFIRM",
               "none")
      ELSE out(TierLevel(amount_usd, cfg), "none")

\* check_approval_level(amount_sats): p1 is the price of the amount's
\* conversion, p2 the price of the session-spend conversion
check_approval_level(amount_sats, p1, p2, s, cfg, t) ==
  LET amount_usd == sats_to_usd(amount_sats, p1)
      session_spent_usd == sats_to_usd(s.spent_sats, p2)
      remaining_session_usd == SessionLimitUsd(cfg) - session_spent_usd
      base == [amount_sats |-> amount_sats, amount_usd |-> amount_usd,
               session_spent_usd |-> session_spent_usd,
               cooldown_elapsed |-> _is_cooldown_elapsed(s, cfg, t),
               is_first_payment |-> s.is_first_payment,
               remaining_session_budget_usd |-> Max(0, remaining_session_usd)]
      cooldown_remaining == cfg.cooldown_seconds - (t - s.last_payment_time)
      out(level, why) ==
        base @@ [level |-> level, denial |-> why,
                 cooldown_remaining |-> IF why = "cooldown" THEN cooldown_remaining ELSE 0]
  IN  IF cfg.max_per_session # None
         /\ ExceedsSessionLimit(session_spent_usd, amount_usd, cfg.max_per_session)
      THEN out("DENY", "session")
      ELSE IF cfg.max_per_payment # None
              /\ ExceedsPaymentLimit(amount_usd, cfg.max_per_payment)
      THEN out("DENY", "payment")
      ELSE IF ~_is_cooldown_elapsed(s, cfg, t)
      THEN out("DENY", "cooldown")
      ELSE IF s.is_first_payment /\ cfg.require_approval_for_first_payment
      THEN out(IF amount_usd > cfg.form_confirm THEN "URL_CONFIRM" ELSE "FORM_CONFIRM",
               "none")
      ELSE out(TierLevel(amount_usd, cfg), "none")

record_spend_Unvalidated(s, amount_sats, cache) ==
  [s EXCEPT !.spent_sats = @ + amount_sats,
            !.spent_usd = @ + RoundHalfEven(amount_sats * get_cached_btc_price(cache), 1000),
            !.request_count = @ + 1,
            !.is_first_payment = FALSE]

record_spend_KeepsFirstPayment(s, amount_sats, cache) ==
  IF amount_sats < 0 THEN s ELSE
  [s EXCEPT !.spent_sats = @ + amount_sats,
            !.spent_usd = @ + RoundHalfEven(amount_sats * get_cached_btc_price(cache), 1000),
            !.request_count = @ + 1]

\* record_spend: a negative amount raises ValueError before any field is
\* touched
record_spend(s, amount_sats, cache) ==
  IF amount_sats < 0 THEN s ELSE
  [s EXCEPT !.spent_sats = @ + amount_sats,
            !.spent_usd = @ + RoundHalfEven(amount_sats * get_cached_btc_price(cache), 1000),
            !.request_count = @ + 1,
            !.is_first_payment = FALSE]

record_payment_time_ClearsSpend(s, t) ==
  [s EXCEPT !.last_payment_time = t, !.spent_sats = 0, !.spent_usd = 0]

record_payment_time(s, t) == [s EXCEPT !.last_payment_time = t]

reset_session_KeepsFirstPayment(s, t) ==
  [s EXCEPT !.spent_sats = 0, !.spent_usd = 0, !.request_count = 0,
            !.session_started = t]

\* the reset also forgets the last payment
reset_session_ClearsCooldown(s, t) ==
  [s EXCEPT !.spent_sats = 0, !.spent_usd = 0, !.request_count = 0,
            !.session_started = t, !.is_first_payment = TRUE,
            !.last_payment_time = DatetimeMin]

reset_session(s, t) ==
  [s EXCEPT !.spent_sats = 0, !.spent_usd = 0, !.request_count = 0,
            !.session_started = t, !.is_first_payment = TRUE]

NoCheck == [level |-> "none"]

\* get_status: the session and price parts of the returned dict
get_status(s, cfg, cache, t) ==
  [spentSats |-> s.spent_sats,
   spentUsd |-> s.spent_usd,
   remainingUsd |-> Max(0, SessionLimitUsd(cfg) - s.spent_usd),
   requestCount |-> s.request_count,
   sessionStarted |-> s.session_started,
   isFirstPayment |-> s.is_first_payment,
   cooldownActive |-> ~_is_cooldown_elapsed(s, cfg, t),
   btcUsd |-> get_cached_btc_price(cache)]

----------------------------------------------------------------------------
(* BudgetManager (legacy, sats based) *)

\* the server builds it from L402_MAX_SATS_PER_REQUEST / _PER_SESSION
NewBudgetManager ==
  [max_per_request |-> 1000, max_per_session |-> 10000,
   session_spent |-> 0, payments |-> <<>>]

check_payment_OverrideWins(bm, amount_sats, max_override) ==
  LET effective_max == IF max_override # None THEN max_override ELSE bm.max_per_request
  IN  \/ amount_sats > effective_max
      \/ amount_sats > bm.max_per_session - bm.session_spent

\* TRUE when check_payment raises BudgetExceededError
check_payment(bm, amount_sats, max_override) ==
  LET effective_max == Min(IF max_override # None THEN max_override
                           ELSE bm.max_per_request, bm.max_per_request)
  IN  \/ amount_sats > effective_max
      \/ amount_sats > bm.max_per_session - bm.session_spent

record_payment_CountsEvery(bm, amount_sats, status) ==
  [bm EXCEPT !.payments = Append(@, [amount_sats |-> amount_sats, status |-> status]),
             !.session_spent = @ + amount_sats]

record_payment(bm, amount_sats, status) ==
  [bm EXCEPT !.payments = Append(@, [amount_sats |-> amount_sats, status |-> status]),
             !.session_spent = IF status = "success" THEN @ + amount_sats ELSE @]

\* BudgetManager(max_per_request, max_per_session): an argument left out
\* takes the dataclass default
BudgetManager(max_per_request, max_per_session) ==
  [max_per_request |-> IF max_per_request # None THEN max_per_request ELSE 10000,
   max_per_session |-> IF max_per_session # None THEN max_per_session ELSE 100000,
   session_spent |-> 0, payments |-> <<>>]

\* BudgetManager.configure
configure(bm, per_request, per_session) ==
  [bm EXCEPT !.max_per_request = IF per_request # None THEN per_request ELSE @,
             !.max_per_session = IF per_session # None THEN per_session ELSE @]

----------------------------------------------------------------------------
(* L402Client *)

NoHeader == [scheme |-> "absent", macaroon |-> FALSE, invoice |-> FALSE]

\* the WWW-Authenticate values a 402 response can carry
ChallengeHeaders ==
  { NoHeader,
    [scheme |-> "L402", macaroon |-> TRUE, invoice |-> TRUE],
    [scheme |-> "LSAT", macaroon |-> TRUE, invoice |-> TRUE],
    [scheme |-> "Basic", macaroon |-> TRUE, invoice |-> TRUE],
    [scheme |-> "L402", macaroon |-> FALSE, invoice |-> TRUE],
    [scheme |-> "L402", macaroon |-> TRUE, invoice |-> FALSE] }

parse_l402_challenge_AnyScheme(h) ==
  /\ h.macaroon
  /\ h.invoice

\* parse_l402_challenge: TRUE when a challenge is returned, FALSE when it
\* raises L402Error
parse_l402_challenge(h) ==
  /\ h.scheme \in {"L402", "LSAT"}
  /\ h.macaroon
  /\ h.invoice

\* the decoder fails, or the invoice has no amount or a zero amount
InvoiceAmountUnknown(d) == d = Undecodable \/ d = 0

_get_invoice_amount_msat_KeepsZero(d) ==
  IF d = Undecodable THEN None ELSE d

\* _get_invoice_amount_msat: d is what the bolt11 decoder yields, the
\* invoice's amount in millisatoshis (0 when it has none) or a failure
_get_invoice_amount_msat(d) ==
  IF d = Undecodable THEN None
  ELSE IF d # 0 THEN d ELSE None

\* L402Challenge.amount_sats of a decoded amount in millisatoshis
amount_sats_of(amount_msat) ==
  IF amount_msat # None THEN amount_msat \div 1000 ELSE None

ExceedsMaxSats_Swapped(amount_sats, max_sats) ==
  amount_sats # None /\ max_sats > amount_sats

\* the budget test of fetch / pay_challenge
ExceedsMaxSats(amount_sats, max_sats) ==
  amount_sats # None /\ amount_sats > max_sats

AfterRetry_PayAgain(status) ==
  IF status = 402 THEN "pay" ELSE IF status >= 400 THEN "raise" ELSE "return"

\* where fetch goes after the retried response
AfterRetry(status) == IF status >= 400 THEN "raise" ELSE "return"

\* the first response gives fetch nothing to pay: it is not a 402, or it has
\* no WWW-Authenticate header, or the header is not an L402/LSAT challenge
\* with a macaroon and an invoice
NothingToPay(status, h) ==
  \/ status # 402
  \/ h = NoHeader
  \/ h.scheme \notin {"L402", "LSAT"}
  \/ ~h.macaroon
  \/ ~h.invoice

\* where fetch goes after the first response
AfterFirst(status) ==
  IF status = 402 THEN "challenge"
  ELSE IF status >= 400 THEN "raise" ELSE "return"

----------------------------------------------------------------------------
(* Tool invocations *)

IdleFlow ==
  [pc |-> "idle", tool |-> "none", max_sats |-> 0, confirmed |-> FALSE,
   level |-> "none", amount_sats |-> None, challenged |-> FALSE,
   nothing_to_pay |-> FALSE, amount_unknown |-> FALSE,
   first_status |-> 0, retry_status |-> 0,
   wallet_calls |-> 0, http_requests |-> 0, paid |-> FALSE, recorded |-> FALSE,
   exc |-> "none", result |-> "none",
   reports_amount |-> FALSE, reports_preimage |-> FALSE,
   bm_appended |-> <<>>, bm_added |-> 0]

\* what a tool step did to the BudgetManager: the statuses of the records it
\* appended and what it added to session_spent
ManagerEffect(fl, bm, bm2) ==
  [fl EXCEPT !.bm_appended =
               [i \in 1..(Len(bm2.payments) - Len(bm.payments)) |->
                  bm2.payments[Len(bm.payments) + i].status],
             !.bm_added = bm2.session_spent - bm.session_spent]

\* the tool returns: its JSON is summarised by result and what it reports
Finish(fl, result, exc) == [fl EXCEPT !.pc = "done", !.result = result, !.exc = exc]

----------------------------------------------------------------------------
(* NWCWallet *)

NothingReplaced == [ws |-> "none", close_ok |-> FALSE, listener |-> "none"]

IdleRequest ==
  [pc |-> "idle", registered |-> FALSE, future |-> "none",
   sub_sent |-> FALSE, close_sent |-> FALSE, outcome |-> "none",
   response |-> "none"]

\* inbound relay frames: the response to a request, a second response to it
\* with another content, and frames that _process_message has to ignore
ResponseFrame(r) ==
  [kind |-> 23195, p |-> TRUE, e |-> r, decrypts |-> TRUE, content |-> "a"]

Frames ==
  {ResponseFrame(r) : r \in Reqs} \cup
  {[ResponseFrame(r) EXCEPT !.content = "b"] : r \in Reqs} \cup
  { [kind |-> 1, p |-> TRUE, e |-> "r1", decrypts |-> TRUE, content |-> "a"],
    [kind |-> 23195, p |-> FALSE, e |-> "r1", decrypts |-> TRUE, content |-> "a"],
    [kind |-> 23195, p |-> TRUE, e |-> "absent", decrypts |-> TRUE, content |-> "a"],
    [kind |-> 23195, p |-> TRUE, e |-> "unknown", decrypts |-> TRUE, content |-> "a"],
    [kind |-> 23195, p |-> TRUE, e |-> "r1", decrypts |-> FALSE, content |-> "a"] }

\* the future takes whatever is set last
set_result_Overwrites(rq, content) ==
  [rq EXCEPT !.future = IF @ = "pending" THEN "result" ELSE @,
             !.response = content]

\* Future.set_result: a future that is done or cancelled raises
\* InvalidStateError, which _process_message catches and logs
set_result(rq, content) ==
  IF rq.future = "pending"
  THEN [rq EXCEPT !.future = "result", !.response = content]
  ELSE rq

\* the p tag is not compared with the local public key
Resolves_AnyRecipient(fr, pend) ==
  IF fr.kind = 23195 /\ fr.e # "absent" /\ fr.decrypts /\ fr.e \in pend
  THEN {fr.e} ELSE {}

\* _process_message: the request whose future the frame resolves, if any
Resolves(fr, pend) ==
  IF fr.kind = 23195 /\ fr.p /\ fr.e # "absent" /\ fr.decrypts /\ fr.e \in pend
  THEN {fr.e} ELSE {}

\* NWCWallet.pay_invoice once _send_request has returned a response.
\* Strings are sequences of characters.
HexDigits ==
  {"0", "1", "2", "3", "4", "5", "6", "7", "8", "9", "a", "b", "c", "d", "e", "f"}

PreimageChars == {"0", "x", " ", "F", "g"}

RECURSIVE StringsUpTo(_)
StringsUpTo(n) ==
  IF n = 0 THEN {<<>>}
  ELSE LET shorter == StringsUpTo(n - 1)
       IN  shorter \cup {Append(t, ch) : t \in shorter, ch \in PreimageChars}

\* what a wallet can put in result.preimage: short strings, and the
\* payment requests and mixed-case values some wallets send back
Preimages ==
  StringsUpTo(MaxPreimageLen) \cup
  { <<"l", "n", "b", "c", "1">>, <<"l", "n", "t", "b", "1">>,
    <<"l", "n", "u", "r", "l">>, <<"L", "N", "B", "C", "1">>,
    <<" ", "l", "n", "b", "c">>, <<"0", "x", "A", "b", "1", "f">>,
    <<"a", "b", "c", "0", "1", "f">> }

\* str.startswith
startswith(str, prefix) ==
  /\ Len(str) >= Len(prefix)
  /\ SubSeq(str, 1, Len(prefix)) = prefix

\* str.replace(old, ""), old of two characters: one pass, left to right
RECURSIVE replace(_, _)
replace(str, old) ==
  IF Len(str) < 2 THEN str
  ELSE IF SubSeq(str, 1, 2) = old THEN replace(SubSeq(str, 3, Len(str)), old)
  ELSE <<Head(str)>> \o replace(Tail(str), old)

\* str.lower on one character
lower_char(ch) ==
  CASE ch = "A" -> "a" [] ch = "B" -> "b" [] ch = "C" -> "c" [] ch = "F" -> "f"
    [] ch = "L" -> "l" [] ch = "N" -> "n" [] OTHER -> ch

lower(str) == [i \in 1..Len(str) |-> lower_char(str[i])]

\* line 450: preimage.replace("0x", "").replace(" ", "").lower()
normalize_preimage(str) ==
  lower(SelectSeq(replace(str, <<"0", "x">>), LAMBDA ch : ch # " "))

\* the responses _send_request can hand to pay_invoice: an error, a result
\* without a preimage (None), or a result with one
WalletResponses ==
  { [error |-> TRUE, has_preimage |-> FALSE, preimage |-> <<>>],
    [error |-> FALSE, has_preimage |-> FALSE, preimage |-> <<>>],
    [error |-> TRUE, has_preimage |-> TRUE, preimage |-> <<"a", "b">>] } \cup
  { [error |-> FALSE, has_preimage |-> TRUE, preimage |-> p] : p \in Preimages }

Raise(exc) == [kind |-> exc, value |-> <<>>]

\* lines 430-459
nwc_pay_invoice(response) ==
  IF response.error THEN Raise("NWCPaymentError")
  ELSE IF ~response.has_preimage \/ response.preimage = <<>>
  THEN Raise("NWCPaymentError")
  ELSE IF \/ startswith(response.preimage, <<"l", "n", "b", "c">>)
          \/ startswith(response.preimage, <<"l", "n", "t", "b">>)
          \/ startswith(response.preimage, <<"l", "n", "u", "r", "l">>)
  THEN Raise("NWCPaymentError")
  ELSE LET preimage == normalize_preimage(response.preimage)
       IN  IF \A i \in 1..Len(preimage) : preimage[i] \in HexDigits
           THEN [kind |-> "returned", value |-> preimage]
           ELSE Raise("NWCPaymentError")

NoWalletCall ==
  [response |-> [error |-> FALSE, has_preimage |-> FALSE, preimage |-> <<>>],
   kind |-> "none", value |-> <<>>]

NoStatus == [spentSats |-> None]

\* a direct call on the BudgetManager: its arguments, whether it raised
\* BudgetExceededError, the manager it found, and the number of
\* record_payment calls since the manager was constructed
ManagerCall(op, a, b, exc, before, n) ==
  [op |-> op, a |-> a, b |-> b, raised |-> exc, before |-> before, record_calls |-> n]

NoManagerCall == ManagerCall("none", None, None, FALSE, NewBudgetManager, 0)

----------------------------------------------------------------------------
(* Concurrent callers of check_approval_level *)

IdleCaller ==
  [pc |-> "idle", stage |-> "none", k |-> 0, amount_sats |-> 0, price1 |-> 0,
   spent_read |-> 0, level |-> "none", denial |-> "none", amount_usd |-> 0,
   seen_spent_usd |-> 0, consistent |-> TRUE, recorded |-> FALSE]

\* usd_to_sats conversions of one _update_thresholds_if_needed run
NumConversions(cfg) ==
  4 + (IF cfg.max_per_payment # None THEN 1 ELSE 0)
    + (IF cfg.max_per_session # None THEN 1 ELSE 0)

----------------------------------------------------------------------------
\* everything but the configuration the service is started with
InitServices ==
  /\ now = 0
  /\ priceCache = [price |-> DEFAULT_FALLBACK_PRICE, expiry |-> DatetimeMin]
  /\ session = NewSession(0)
  /\ lastCheck = NoCheck
  /\ sequential = TRUE
  /\ raised = "none"
  /\ budget_manager = NewBudgetManager
  /\ flow = [f \in Flows |-> IdleFlow]
  /\ calls = 0
  /\ ws = "none"
  /\ ws_close_ok = FALSE
  /\ connected = FALSE
  /\ listener = "none"
  /\ pending = {}
  /\ req = [r \in Reqs |-> IdleRequest]
  /\ replaced = NothingReplaced
  /\ co = [c \in Callers |-> IdleCaller]
  /\ price_lock = "free"
  /\ budget_lock = "free"
  /\ cache_source = "none"
  /\ thresholds_cache_expiry = DatetimeMin
  /\ recomputations = 0
  /\ fetches = 0
  /\ lastStatus = NoStatus
  /\ wallet_call = NoWalletCall
  /\ bm_last = NoManagerCall

Init ==
  /\ config \in Configurations
  /\ InitServices

Tick ==
  /\ now < MaxTime
  /\ now' = now + 1
  /\ lastCheck' = NoCheck
  /\ raised' = "none"
  /\ lastStatus' = NoStatus
  /\ UNCHANGED <<config, priceCache, session, sequential, toolVars, nwcVars, concVars, wallet_call, bm_last>>

\* await budget_service.check_approval_level(a), called directly
BsCheck ==
  \E a \in CheckAmounts, r1 \in FetchChoices(priceCache, now) :
   \E r2 \in FetchChoices(get_btc_price(priceCache, now, r1), now) :
    LET c1 == get_btc_price(priceCache, now, r1)
        c2 == get_btc_price(c1, now, r2)
    IN  /\ priceCache' = c2
        /\ lastCheck' = check_approval_level(a, c1.price, c2.price, session, config, now)
        /\ raised' = "none"
        /\ lastStatus' = NoStatus
        /\ UNCHANGED <<config, now, session, sequential, toolVars, nwcVars, concVars,
                       wallet_call, bm_last>>

\* budget_service.record_spend(a), called directly; a negative amount
\* raises ValueError
BsRecordSpend(a) ==
  /\ a >= 0 => session.request_count < MaxRequests
  /\ session' = record_spend(session, a, priceCache)
  /\ raised' = IF a < 0 THEN "ValueError" ELSE "none"
  /\ lastStatus' = NoStatus
  /\ sequential' = IF a < 0 THEN sequential
                   ELSE (sequential /\ lastCheck.level \notin {"none", "DENY"}
                                    /\ lastCheck.amount_sats = a)
  /\ lastCheck' = NoCheck
  /\ UNCHANGED <<config, now, priceCache, toolVars, nwcVars, concVars, wallet_call, bm_last>>

BsRecordPaymentTime ==
  /\ session' = record_payment_time(session, now)
  /\ session' # session
  /\ lastCheck' = NoCheck
  /\ raised' = "none"
  /\ lastStatus' = NoStatus
  /\ UNCHANGED <<config, now, priceCache, sequential, toolVars, nwcVars, concVars, wallet_call, bm_last>>

BsResetSession ==
  /\ session' = reset_session(session, now)
  /\ session' # session
  /\ lastCheck' = NoCheck
  /\ sequential' = TRUE
  /\ raised' = "none"
  /\ lastStatus' = NoStatus
  /\ UNCHANGED <<config, now, priceCache, toolVars, nwcVars, concVars, wallet_call, bm_last>>

BsGetStatus_CountsRequest ==
  /\ lastStatus' = get_status(session, config, priceCache, now)
  /\ session' = [session EXCEPT !.request_count = @ + 1]
  /\ lastCheck' = NoCheck
  /\ raised' = "none"
  /\ UNCHANGED <<config, now, priceCache, sequential, toolVars, nwcVars, concVars,
                 wallet_call, bm_last>>

\* budget_service.get_status(), called directly
BsGetStatus ==
  /\ lastStatus' = get_status(session, config, priceCache, now)
  /\ lastCheck' = NoCheck
  /\ raised' = "none"
  /\ UNCHANGED <<config, now, priceCache, session, sequential, toolVars, nwcVars, concVars,
                 wallet_call, bm_last>>

NextBudget ==
  \/ Tick
  \/ BsCheck
  \/ \E a \in SpendAmounts : BsRecordSpend(a)
  \/ BsRecordPaymentTime
  \/ BsResetSession
  \/ BsGetStatus

SpecBudget == Init /\ [][NextBudget]_vars

\* the same operations on a service started with a configuration under which
\* the session limit, the per-payment limit and the cooldown can all apply to
\* one amount
InitDenials ==
  /\ config \in DenialConfigurations
  /\ InitServices

SpecDenials == InitDenials /\ [][NextBudget]_vars

----------------------------------------------------------------------------
(* The paying tools, as the server dispatches them (server.py call_tool):   *)
(* access_l402_resource and pay_invoice receive the BudgetService and the   *)
(* BudgetManager, pay_l402_challenge receives the BudgetManager only.       *)
(* One action per stretch of code between two suspension points.            *)

\* the approval gate shared by access_l402_resource and pay_invoice:
\* check_approval_level(max_sats), then the DENY / confirmation returns
Gate(fl, res) ==
  IF res.level = "DENY" THEN Finish([fl EXCEPT !.level = res.level], "denied", "none")
  ELSE IF requires_confirmation(res.level) /\ ~fl.confirmed
  THEN Finish([fl EXCEPT !.level = res.level], "requires_confirmation", "none")
  ELSE [fl EXCEPT !.level = res.level]

\* access_l402_resource up to the await of l402_client.fetch's first request
access_l402_resource_call(f) ==
  /\ flow[f].pc = "idle"
  /\ calls < MaxCalls
  /\ calls' = calls + 1
  /\ \E m \in ToolMaxSats, c \in BOOLEAN, method_ok \in BOOLEAN,
        r1 \in FetchChoices(priceCache, now) :
      \E r2 \in FetchChoices(get_btc_price(priceCache, now, r1), now) :
       LET c1 == get_btc_price(priceCache, now, r1)
           c2 == get_btc_price(c1, now, r2)
           fl == [IdleFlow EXCEPT !.tool = "access_l402_resource",
                                  !.max_sats = m, !.confirmed = c]
           res == check_approval_level(m, c1.price, c2.price, session, config, now)
           gated == Gate(fl, res)
       IN  IF ~method_ok
           THEN /\ flow' = [flow EXCEPT ![f] = Finish(fl, "error", "none")]
                /\ UNCHANGED priceCache
           ELSE /\ priceCache' = c2
                /\ flow' = [flow EXCEPT ![f] =
                     IF gated.pc = "done" THEN gated ELSE [gated EXCEPT !.pc = "request"]]
  /\ UNCHANGED <<config, now, session, lastCheck, sequential, raised, budget_manager, nwcVars, concVars, callVars>>

\* L402Client.fetch: the first response arrives, with this status, this
\* WWW-Authenticate header and this decoded invoice; up to the await of
\* wallet.pay_invoice, or out through an exception or the plain return
FirstResponse(f, status, h, d) ==
  /\ flow[f].pc = "request"
  /\ LET fl == [flow[f] EXCEPT !.http_requests = @ + 1, !.first_status = status,
                               !.nothing_to_pay = NothingToPay(status, h)]
         amt == amount_sats_of(_get_invoice_amount_msat(d))
     IN  flow' = [flow EXCEPT ![f] =
           CASE AfterFirst(status) = "raise" -> Finish(fl, "error", "L402Error")
             [] AfterFirst(status) = "return" -> Finish(fl, "success", "none")
             [] OTHER ->
                  IF h = NoHeader \/ ~parse_l402_challenge(h)
                  THEN Finish(fl, "error", "L402Error")
                  ELSE IF ExceedsMaxSats(amt, fl.max_sats)
                  THEN Finish([fl EXCEPT !.challenged = TRUE, !.amount_sats = amt,
                                         !.amount_unknown = InvoiceAmountUnknown(d)],
                              "error", "L402BudgetExceededError")
                  ELSE [fl EXCEPT !.challenged = TRUE, !.amount_sats = amt,
                                  !.amount_unknown = InvoiceAmountUnknown(d),
                                  !.pc = "pay"]]
  /\ UNCHANGED <<budgetVars, budget_manager, calls, nwcVars, concVars, callVars>>

fetch_first_response(f) ==
  \E status \in HttpStatuses, h \in ChallengeHeaders, d \in DecodedInvoices :
    FirstResponse(f, status, h, d)

\* L402Client.fetch: wallet.pay_invoice completes; the retried request is sent
fetch_pay(f) ==
  /\ flow[f].pc = "pay"
  /\ flow[f].tool = "access_l402_resource"
  /\ \E w \in {"preimage", "raise"} :
       LET fl == [flow[f] EXCEPT !.wallet_calls = @ + 1]
       IN  flow' = [flow EXCEPT ![f] =
             IF w = "raise" THEN Finish(fl, "error", "WalletError")
             ELSE [fl EXCEPT !.paid = TRUE, !.pc = "retry"]]
  /\ UNCHANGED <<budgetVars, budget_manager, calls, nwcVars, concVars, callVars>>

\* L402Client.fetch: the retried response arrives; access_l402_resource
\* records the payment and returns
fetch_retry_response(f) ==
  /\ flow[f].pc = "retry"
  /\ \E status \in HttpStatuses :
       LET fl == [flow[f] EXCEPT !.http_requests = @ + 1, !.retry_status = status]
           amount_paid == fl.amount_sats
       IN  CASE AfterRetry(status) = "raise" ->
                  /\ flow' = [flow EXCEPT ![f] = Finish(fl, "error", "L402Error")]
                  /\ UNCHANGED session
             [] AfterRetry(status) = "return" /\ amount_paid # None ->
                  /\ session' = record_payment_time(
                                  record_spend(session, amount_paid, priceCache), now)
                  /\ flow' = [flow EXCEPT ![f] =
                       Finish([fl EXCEPT !.recorded = TRUE, !.reports_amount = TRUE],
                              "success", "none")]
             [] AfterRetry(status) = "return" /\ amount_paid = None ->
                  /\ flow' = [flow EXCEPT ![f] = Finish(fl, "success", "none")]
                  /\ UNCHANGED session
             [] OTHER ->
                  /\ flow' = [flow EXCEPT ![f] = [fl EXCEPT !.pc = AfterRetry(status)]]
                  /\ UNCHANGED session
  /\ UNCHANGED <<config, now, priceCache, lastCheck, sequential, raised, budget_manager, calls, nwcVars, concVars, callVars>>

\* pay_invoice (tool) up to the await of wallet.pay_invoice
pay_invoice_call(f) ==
  /\ flow[f].pc = "idle"
  /\ calls < MaxCalls
  /\ calls' = calls + 1
  /\ \E m \in ToolMaxSats, c \in BOOLEAN, invoice \in {"empty", "not_bolt11", "bolt11"},
        r1 \in FetchChoices(priceCache, now) :
      \E r2 \in FetchChoices(get_btc_price(priceCache, now, r1), now) :
       LET c1 == get_btc_price(priceCache, now, r1)
           c2 == get_btc_price(c1, now, r2)
           fl == [IdleFlow EXCEPT !.tool = "pay_invoice",
                                  !.max_sats = m, !.confirmed = c]
           res == check_approval_level(m, c1.price, c2.price, session, config, now)
           gated == Gate(fl, res)
       IN  IF invoice # "bolt11"
           THEN /\ flow' = [flow EXCEPT ![f] = Finish(fl, "error", "none")]
                /\ UNCHANGED priceCache
           ELSE /\ priceCache' = c2
                /\ flow' = [flow EXCEPT ![f] =
                     IF gated.pc = "done" THEN gated ELSE [gated EXCEPT !.pc = "pay"]]
  /\ UNCHANGED <<config, now, session, lastCheck, sequential, raised, budget_manager, nwcVars, concVars, callVars>>

\* pay_invoice (tool): wallet.pay_invoice completes; record and return
pay_invoice_pay(f) ==
  /\ flow[f].pc = "pay"
  /\ flow[f].tool = "pay_invoice"
  /\ \E w \in {"preimage", "empty", "raise"} :
       LET fl == [flow[f] EXCEPT !.wallet_calls = @ + 1]
       IN  CASE w = "empty" ->
                  /\ budget_manager' = record_payment(budget_manager, fl.max_sats, "failed")
                  /\ flow' = [flow EXCEPT ![f] =
                       Finish(ManagerEffect(fl, budget_manager, budget_manager'),
                              "error", "none")]
                  /\ UNCHANGED session
             [] w = "raise" ->
                  /\ budget_manager' = record_payment(budget_manager, 0, "failed")
                  /\ flow' = [flow EXCEPT ![f] =
                       Finish(ManagerEffect(fl, budget_manager, budget_manager'),
                              "error", "WalletError")]
                  /\ UNCHANGED session
             [] OTHER ->
                  /\ session' = record_payment_time(
                                  record_spend(session, fl.max_sats, priceCache), now)
                  /\ flow' = [flow EXCEPT ![f] =
                       Finish([fl EXCEPT !.paid = TRUE, !.recorded = TRUE,
                                         !.reports_preimage = TRUE], "success", "none")]
                  /\ UNCHANGED budget_manager
  /\ UNCHANGED <<config, now, priceCache, lastCheck, sequential, raised, calls, nwcVars, concVars, callVars>>

\* pay_l402_challenge up to the await of wallet.pay_invoice
pay_l402_challenge_call(f) ==
  /\ flow[f].pc = "idle"
  /\ calls < MaxCalls
  /\ calls' = calls + 1
  /\ \E m \in ToolMaxSats, args_ok \in BOOLEAN, d \in DecodedInvoices :
       LET decodes == d # Undecodable
           amt == IF decodes /\ d # 0 THEN d \div 1000 ELSE None
           fl == [IdleFlow EXCEPT !.tool = "pay_l402_challenge", !.max_sats = m]
           fa == [fl EXCEPT !.amount_sats = amt]
       IN  flow' = [flow EXCEPT ![f] =
             IF ~args_ok THEN Finish(fl, "error", "none")
             ELSE IF ~decodes THEN Finish(fl, "error", "DecodeError")
             ELSE IF ExceedsMaxSats(amt, m) THEN Finish(fa, "error", "none")
             ELSE IF amt # None /\ amt # 0 /\ check_payment(budget_manager, amt, m)
             THEN Finish(fa, "error", "BudgetExceededError")
             ELSE [fa EXCEPT !.pc = "pay"]]
  /\ UNCHANGED <<budgetVars, budget_manager, nwcVars, concVars, callVars>>

\* pay_l402_challenge: wallet.pay_invoice completes; record and return
pay_l402_challenge_pay(f) ==
  /\ flow[f].pc = "pay"
  /\ flow[f].tool = "pay_l402_challenge"
  /\ \E w \in {"preimage", "raise"} :
       LET fl == [flow[f] EXCEPT !.wallet_calls = @ + 1]
           amt == fl.amount_sats
       IN  IF w = "raise"
           THEN /\ flow' = [flow EXCEPT ![f] = Finish(fl, "error", "WalletError")]
                /\ UNCHANGED budget_manager
           ELSE /\ budget_manager' =
                     IF amt # None /\ amt # 0
                     THEN record_payment(budget_manager, amt, "success")
                     ELSE budget_manager
                /\ flow' = [flow EXCEPT ![f] =
                     Finish([ManagerEffect(fl, budget_manager, budget_manager')
                               EXCEPT !.paid = TRUE, !.recorded = (amt # None /\ amt # 0),
                                      !.reports_amount = TRUE, !.reports_preimage = TRUE],
                            "success", "none")]
  /\ UNCHANGED <<budgetVars, calls, nwcVars, concVars, callVars>>

\* the result has been delivered to the caller
tool_return(f) ==
  /\ flow[f].pc = "done"
  /\ flow' = [flow EXCEPT ![f] = IdleFlow]
  /\ UNCHANGED <<budgetVars, budget_manager, calls, nwcVars, concVars, callVars>>

Next ==
  \/ \E f \in Flows :
       \/ access_l402_resource_call(f)
       \/ fetch_first_response(f)
       \/ fetch_pay(f)
       \/ fetch_retry_response(f)
       \/ pay_invoice_call(f)
       \/ pay_invoice_pay(f)
       \/ pay_l402_challenge_call(f)
       \/ pay_l402_challenge_pay(f)
       \/ tool_return(f)

Spec == Init /\ [][Next]_vars

\* the same tools on a service started with a configuration whose tiers
\* spread the tools' amounts over every level
InitGate ==
  /\ config \in GateConfigurations
  /\ InitServices

SpecGate == InitGate /\ [][Next]_vars

----------------------------------------------------------------------------
(* L402Client called directly: pay_challenge, next to the fetch that        *)
(* access_l402_resource runs                                                *)

\* L402Client.pay_challenge(invoice, macaroon, max_sats) up to the await of
\* wallet.pay_invoice
pay_challenge_call(f) ==
  /\ flow[f].pc = "idle"
  /\ calls < MaxCalls
  /\ calls' = calls + 1
  /\ \E m \in ToolMaxSats, d \in DecodedInvoices :
       LET amount_msat == _get_invoice_amount_msat(d)
           amt == amount_sats_of(amount_msat)
           fl == [IdleFlow EXCEPT !.tool = "pay_challenge", !.max_sats = m,
                                  !.challenged = TRUE, !.amount_sats = amt,
                                  !.amount_unknown = InvoiceAmountUnknown(d)]
       IN  flow' = [flow EXCEPT ![f] =
             IF amount_msat # None /\ amt > m
             THEN Finish(fl, "error", "L402BudgetExceededError")
             ELSE [fl EXCEPT !.pc = "pay"]]
  /\ UNCHANGED <<budgetVars, budget_manager, nwcVars, concVars, callVars>>

\* L402Client.pay_challenge: wallet.pay_invoice completes; the token is
\* returned, or L402PaymentError raised
pay_challenge_pay(f) ==
  /\ flow[f].pc = "pay"
  /\ flow[f].tool = "pay_challenge"
  /\ \E w \in {"preimage", "raise"} :
       LET fl == [flow[f] EXCEPT !.wallet_calls = @ + 1]
       IN  flow' = [flow EXCEPT ![f] =
             IF w = "raise" THEN Finish(fl, "error", "L402PaymentError")
             ELSE Finish([fl EXCEPT !.paid = TRUE, !.reports_preimage = TRUE],
                         "success", "none")]
  /\ UNCHANGED <<budgetVars, budget_manager, calls, nwcVars, concVars, callVars>>

NextClient ==
  \/ \E f \in Flows :
       \/ access_l402_resource_call(f)
       \/ fetch_first_response(f)
       \/ fetch_pay(f)
       \/ fetch_retry_response(f)
       \/ pay_challenge_call(f)
       \/ pay_challenge_pay(f)
       \/ tool_return(f)

SpecClient == Init /\ [][NextClient]_vars

----------------------------------------------------------------------------
(* The tools that work on the BudgetManager alone: configure_budget and     *)
(* pay_l402_challenge (server.py 358-382)                                   *)

\* configure_budget(per_request, per_session): it awaits nothing
configure_budget_call(f) ==
  /\ flow[f].pc = "idle"
  /\ calls < MaxCalls
  /\ calls' = calls + 1
  /\ \E l \in ConfigureToolArgs :
       LET per_request == l[1]
           per_session == l[2]
           fl == [IdleFlow EXCEPT !.tool = "configure_budget"]
       IN  IF per_request <= 0 \/ per_session <= 0 \/ per_request > per_session
           THEN /\ flow' = [flow EXCEPT ![f] = Finish(fl, "error", "none")]
                /\ UNCHANGED budget_manager
           ELSE /\ budget_manager' = configure(budget_manager, per_request, per_session)
                /\ flow' = [flow EXCEPT ![f] = Finish(fl, "success", "none")]
  /\ UNCHANGED <<budgetVars, nwcVars, concVars, callVars>>

NextConfigure ==
  \/ \E f \in Flows :
       \/ configure_budget_call(f)
       \/ pay_l402_challenge_call(f)
       \/ pay_l402_challenge_pay(f)
       \/ tool_return(f)

SpecConfigure == Init /\ [][NextConfigure]_vars

----------------------------------------------------------------------------
(* The relay wallet transport: NWCWallet._send_request, the response        *)
(* listener, disconnect and the relay.  A request's event id is its id.     *)

\* the REQ frame sent first and the entry registered only after the EVENT
RegisterAndSubscribe_RegistersLate(rq, socket) ==
  IF socket = "open"
  THEN [rq EXCEPT !.future = "pending", !.sub_sent = TRUE, !.pc = "publish"]
  ELSE [rq EXCEPT !.future = "pending",
                  !.pc = "done", !.outcome = "ConnectionClosed"]

\* lines 381-399: the pending entry is registered, then the REQ frame is
\* sent; a send on a closed socket raises ConnectionClosed
RegisterAndSubscribe(rq, socket) ==
  IF socket = "open"
  THEN [rq EXCEPT !.registered = TRUE, !.future = "pending", !.sub_sent = TRUE,
                  !.pc = "publish"]
  ELSE [rq EXCEPT !.registered = TRUE, !.future = "pending",
                  !.pc = "done", !.outcome = "ConnectionClosed"]

\* lines 410-413: the finally block: the entry is deleted, then CLOSE is
\* sent; a send on a closed socket raises ConnectionClosed
Finally(rq, socket, outcome) ==
  IF socket = "open"
  THEN [rq EXCEPT !.pc = "done", !.close_sent = TRUE, !.outcome = outcome]
  ELSE [rq EXCEPT !.pc = "done", !.outcome = "ConnectionClosed"]

\* lines 272-274: connect() assigns _ws and _response_task without closing
\* or cancelling what they held; a socket that is still open or a listener
\* that still runs lives on, unreferenced.  The listener has started on the
\* socket it was created with.
Overwritten(socket, close_ok, task, before) ==
  IF socket = "open" \/ task = "running"
  THEN [ws |-> socket, close_ok |-> close_ok, listener |-> task]
  ELSE before

\* _send_request is called: connect() is awaited when not connected
send_request_start(r) ==
  /\ req[r].pc = "idle"
  /\ IF ~connected \/ ws = "none"
     THEN /\ req' = [req EXCEPT ![r].pc = "connecting"]
          /\ UNCHANGED pending
     ELSE /\ req' = [req EXCEPT ![r] = RegisterAndSubscribe(req[r], ws)]
          /\ pending' = pending \cup {r}
  /\ UNCHANGED <<ws, ws_close_ok, connected, listener, replaced, budgetVars, toolVars, concVars, callVars>>

\* websockets.connect returns: connect() stores the socket and starts the
\* listener; _send_request goes on to register and subscribe
connect_succeeds(r) ==
  /\ req[r].pc = "connecting"
  /\ ws' = "open"
  /\ ws_close_ok' = FALSE
  /\ connected' = TRUE
  /\ listener' = "running"
  /\ replaced' = Overwritten(ws, ws_close_ok, listener, replaced)
  /\ req' = [req EXCEPT ![r] = RegisterAndSubscribe(req[r], "open")]
  /\ pending' = pending \cup {r}
  /\ UNCHANGED <<budgetVars, toolVars, concVars, callVars>>

\* websockets.connect raises: NWCConnectionError
connect_fails(r) ==
  /\ req[r].pc = "connecting"
  /\ req' = [req EXCEPT ![r].pc = "done", ![r].outcome = "NWCConnectionError"]
  /\ UNCHANGED <<ws, ws_close_ok, connected, listener, pending, replaced, budgetVars, toolVars, concVars, callVars>>

\* line 402: the request EVENT is sent
send_event(r) ==
  /\ req[r].pc = "publish"
  /\ req' = [req EXCEPT ![r] =
       IF ws = "open" THEN [@ EXCEPT !.pc = "wait"]
       ELSE [@ EXCEPT !.pc = "done", !.outcome = "ConnectionClosed"]]
  /\ UNCHANGED <<ws, ws_close_ok, connected, listener, pending, replaced, budgetVars, toolVars, concVars, callVars>>

\* wait_for returns the response
wait_returns(r) ==
  /\ req[r].pc = "wait"
  /\ req[r].future = "result"
  /\ pending' = pending \ {r}
  /\ req' = [req EXCEPT ![r] = Finally(@, ws, "response")]
  /\ UNCHANGED <<ws, ws_close_ok, connected, listener, replaced, budgetVars, toolVars, concVars, callVars>>

\* 60 seconds pass without a result: wait_for cancels the future
wait_times_out(r) ==
  /\ req[r].pc = "wait"
  /\ req[r].future = "pending"
  /\ pending' = pending \ {r}
  /\ req' = [req EXCEPT ![r] = Finally([@ EXCEPT !.future = "cancelled"], ws, "NWCError")]
  /\ UNCHANGED <<ws, ws_close_ok, connected, listener, replaced, budgetVars, toolVars, concVars, callVars>>

\* _handle_responses receives the frame fr and runs _process_message on it
ProcessMessage(fr) ==
  /\ \/ listener = "running" /\ ws = "open"
     \/ replaced.listener = "running" /\ replaced.ws = "open"
  /\ req' = [r \in Reqs |->
               IF r \in Resolves(fr, pending)
               THEN set_result(req[r], fr.content) ELSE req[r]]
  /\ UNCHANGED <<ws, ws_close_ok, connected, listener, pending, replaced, budgetVars, toolVars, concVars, callVars>>

listener_message == \E fr \in Frames : ProcessMessage(fr)

\* the relay connection drops, with or without a normal close code
relay_drop ==
  /\ ws = "open"
  /\ ws' = "closed"
  /\ ws_close_ok' \in BOOLEAN
  /\ UNCHANGED <<connected, listener, pending, req, replaced, budgetVars, toolVars, concVars, callVars>>

\* _handle_responses leaves its loop: the iteration ends silently after a
\* normal close and raises ConnectionClosed otherwise
listener_observes_close ==
  /\ listener = "running"
  /\ ws = "closed"
  /\ listener' = "finished"
  /\ connected' = IF ws_close_ok THEN connected ELSE FALSE
  /\ UNCHANGED <<ws, ws_close_ok, pending, req, replaced, budgetVars, toolVars, concVars, callVars>>

\* disconnect()
disconnect ==
  /\ ws # "none"
  /\ listener' = IF listener = "running" THEN "cancelled" ELSE listener
  /\ ws' = "closed"
  /\ ws_close_ok' = IF ws = "open" THEN TRUE ELSE ws_close_ok
  /\ connected' = FALSE
  /\ <<ws', listener', connected'>> # <<ws, listener, connected>>
  /\ UNCHANGED <<pending, req, replaced, budgetVars, toolVars, concVars, callVars>>

\* the relay drops a socket that connect() has overwritten
replaced_socket_drops ==
  /\ replaced.ws = "open"
  /\ \E ok \in BOOLEAN :
       replaced' = [replaced EXCEPT !.ws = "closed", !.close_ok = ok]
  /\ UNCHANGED <<ws, ws_close_ok, connected, listener, pending, req, budgetVars, toolVars, concVars, callVars>>

\* the listener of an overwritten socket leaves its loop; on
\* ConnectionClosed it clears _connected like any listener
replaced_listener_observes_close ==
  /\ replaced.listener = "running"
  /\ replaced.ws = "closed"
  /\ replaced' = [replaced EXCEPT !.listener = "finished"]
  /\ connected' = IF replaced.close_ok THEN connected ELSE FALSE
  /\ UNCHANGED <<ws, ws_close_ok, listener, pending, req, budgetVars, toolVars, concVars, callVars>>

NextNWC ==
  \/ \E r \in Reqs :
       \/ send_request_start(r)
       \/ connect_succeeds(r)
       \/ connect_fails(r)
       \/ send_event(r)
       \/ wait_returns(r)
       \/ wait_times_out(r)
  \/ listener_message
  \/ relay_drop
  \/ listener_observes_close
  \/ disconnect
  \/ replaced_socket_drops
  \/ replaced_listener_observes_close

SpecNWC == Init /\ [][NextNWC]_vars

\* A _send_request call that has started keeps running: websockets.connect
\* returns or raises within its opening timeout, a send returns or raises,
\* and wait_for returns the result or gives up when its 60 s timer fires.
\* Nothing is assumed of the relay, the wallet or the listener.
FairnessNWC ==
  \A r \in Reqs :
    /\ WF_vars(connect_succeeds(r) \/ connect_fails(r))
    /\ WF_vars(send_event(r))
    /\ WF_vars(wait_returns(r) \/ wait_times_out(r))

SpecNWCLive == Init /\ [][NextNWC]_vars /\ FairnessNWC

----------------------------------------------------------------------------
(* NWCWallet.pay_invoice: what it makes of the wallet's response *)

\* await wallet.pay_invoice(bolt11) when _send_request returns this response
wallet_pay_invoice ==
  /\ \E response \in WalletResponses :
       wallet_call' = [response |-> response] @@ nwc_pay_invoice(response)
  /\ UNCHANGED <<budgetVars, toolVars, nwcVars, concVars, lastStatus, bm_last>>

NextWallet == wallet_pay_invoice

SpecWallet == Init /\ [][NextWallet]_vars

----------------------------------------------------------------------------
(* The BudgetManager called directly, as its unit tests do *)

\* BudgetManager(...) replaces the manager under test
BmConstruct ==
  /\ \E l \in ManagerLimits :
       /\ budget_manager' = BudgetManager(l[1], l[2])
       /\ bm_last' = ManagerCall("construct", l[1], l[2], FALSE, budget_manager, 0)
  /\ UNCHANGED <<budgetVars, flow, calls, nwcVars, concVars, lastStatus, wallet_call>>

\* budget_manager.check_payment(amount_sats, max_override)
BmCheckPayment ==
  /\ \E a \in ManagerAmounts, o \in ManagerOverrides :
       bm_last' = ManagerCall("check_payment", a, o, check_payment(budget_manager, a, o),
                              budget_manager, bm_last.record_calls)
  /\ UNCHANGED <<budgetVars, toolVars, nwcVars, concVars, lastStatus, wallet_call>>

\* budget_manager.record_payment(..., amount_sats, ..., status)
BmRecordPayment ==
  /\ Len(budget_manager.payments) < MaxPayments
  /\ \E a \in RecordAmounts, st \in RecordStatuses :
       /\ budget_manager' = record_payment(budget_manager, a, st)
       /\ bm_last' = ManagerCall("record_payment", a, st, FALSE, budget_manager,
                                 bm_last.record_calls + 1)
  /\ UNCHANGED <<budgetVars, flow, calls, nwcVars, concVars, lastStatus, wallet_call>>

\* budget_manager.configure(per_request, per_session)
BmConfigure ==
  /\ \E l \in ConfigureArgs :
       /\ budget_manager' = configure(budget_manager, l[1], l[2])
       /\ bm_last' = ManagerCall("configure", l[1], l[2], FALSE, budget_manager,
                                 bm_last.record_calls)
  /\ UNCHANGED <<budgetVars, flow, calls, nwcVars, concVars, lastStatus, wallet_call>>

NextManager ==
  \/ BmConstruct
  \/ BmCheckPayment
  \/ BmRecordPayment
  \/ BmConfigure

SpecManager == Init /\ [][NextManager]_vars

----------------------------------------------------------------------------
(* Concurrent check-pay-record flows on one event loop.  A caller runs      *)
(* check_approval_level, then wallet.pay_invoice, then record_spend and     *)
(* record_payment_time, as pay_invoice does when called with confirmed.     *)
(* Each action is the stretch a coroutine runs between two suspensions: a   *)
(* get_btc_price call that finds the price cache valid does not suspend,    *)
(* one that finds it expired suspends on PriceService._lock or on the       *)
(* upstream fetch.  The clock stands still in this specification; both      *)
(* caches start expired, as they are after construction.                    *)

Mach ==
  [co |-> co, cache |-> priceCache, source |-> cache_source,
   plock |-> price_lock, block |-> budget_lock,
   texp |-> thresholds_cache_expiry, recomp |-> recomputations,
   fetches |-> fetches]

Install(M) ==
  /\ co' = M.co
  /\ priceCache' = M.cache
  /\ cache_source' = M.source
  /\ price_lock' = M.plock
  /\ budget_lock' = M.block
  /\ thresholds_cache_expiry' = M.texp
  /\ recomputations' = M.recomp
  /\ fetches' = M.fetches

\* asyncio.Lock.release by c: the lock passes to the caller waiting for it
HandTo(cos, waitpc, c) ==
  IF \E d \in Callers \ {c} : cos[d].pc = waitpc
  THEN CHOOSE d \in Callers \ {c} : cos[d].pc = waitpc
  ELSE "free"

\* lines 135-216 once session_spent_usd is known: the decision is made on the
\* spent sats read before the conversion and on the session as it is now
Decide(M, c, p2) ==
  LET me == M.co[c]
      res == check_approval_level(me.amount_sats, me.price1, p2,
                                  [session EXCEPT !.spent_sats = me.spent_read],
                                  config, now)
  IN  [M EXCEPT !.block = HandTo(M.co, "budget_lock_wait", c),
                !.co[c] = [me EXCEPT !.pc = IF res.level # "DENY" THEN "paying" ELSE "done",
                                     !.stage = "none",
                                     !.level = res.level,
                                     !.denial = res.denial,
                                     !.amount_usd = res.amount_usd,
                                     !.seen_spent_usd = res.session_spent_usd,
                                     !.consistent = (me.spent_read = session.spent_sats)]]

RECURSIVE GetPrice(_, _), Continue(_, _, _)

\* get_btc_price called by c: returns at once from a valid cache, else takes
\* PriceService._lock and starts the upstream fetch, or waits for the lock
GetPrice(M, c) ==
  IF now < M.cache.expiry THEN Continue(M, c, M.cache.price)
  ELSE IF M.plock = "free"
  THEN [M EXCEPT !.plock = c, !.fetches = Min(@ + 1, MaxCount),
                 !.co[c].pc = "fetching"]
  ELSE [M EXCEPT !.co[c].pc = "price_lock_wait"]

\* what c does with the price its get_btc_price call returned
Continue(M, c, price) ==
  LET me == M.co[c]
  IN  CASE me.stage = "thresholds" /\ me.k > 1 ->
             GetPrice([M EXCEPT !.co[c].k = me.k - 1], c)
        [] me.stage = "thresholds" /\ me.k <= 1 ->
             GetPrice([M EXCEPT !.texp = now + THRESHOLDS_CACHE_SECONDS,
                                !.co[c].k = 0, !.co[c].stage = "amount"], c)
        [] me.stage = "amount" ->
             IF M.block = "free"
             THEN GetPrice([M EXCEPT !.block = c,
                                     !.co[c].price1 = price,
                                     !.co[c].stage = "spent",
                                     !.co[c].spent_read = session.spent_sats], c)
             ELSE [M EXCEPT !.co[c].price1 = price, !.co[c].pc = "budget_lock_wait"]
        [] OTHER -> Decide(M, c, price)

\* check_approval_level(a) is called: _update_thresholds_if_needed starts a
\* recomputation when the threshold cache is expired
cc_call(c) ==
  /\ co[c].pc = "idle"
  /\ \E a \in ConcAmounts :
       LET M0 == [Mach EXCEPT !.co[c].amount_sats = a]
       IN  Install(IF now < thresholds_cache_expiry
                   THEN GetPrice([M0 EXCEPT !.co[c].stage = "amount"], c)
                   ELSE GetPrice([M0 EXCEPT !.recomp = Min(@ + 1, MaxCount),
                                            !.co[c].stage = "thresholds",
                                            !.co[c].k = NumConversions(config)], c))
  /\ UNCHANGED <<config, now, session, lastCheck, sequential, raised, toolVars, nwcVars, callVars>>

\* c obtains PriceService._lock and checks the cache again
cc_price_lock_granted(c) ==
  /\ co[c].pc = "price_lock_wait"
  /\ price_lock = c
  /\ Install(IF now < priceCache.expiry
             THEN Continue([Mach EXCEPT !.plock = HandTo(co, "price_lock_wait", c)],
                           c, priceCache.price)
             ELSE [Mach EXCEPT !.fetches = Min(@ + 1, MaxCount),
                               !.co[c].pc = "fetching"])
  /\ UNCHANGED <<config, now, session, lastCheck, sequential, raised, toolVars, nwcVars, callVars>>

\* c's upstream fetch ends: price, expiry and source are assigned together
\* on success and left alone on failure; the lock is released
cc_fetch_done(c) ==
  /\ co[c].pc = "fetching"
  /\ \E r \in FetchResults :
       LET cache1 == get_btc_price(priceCache, now, r)
           M1 == [Mach EXCEPT !.cache = cache1,
                              !.source = IF r > 0 THEN "fetched" ELSE @,
                              !.plock = HandTo(co, "price_lock_wait", c)]
       IN  Install(Continue(M1, c, get_cached_btc_price(cache1)))
  /\ UNCHANGED <<config, now, session, lastCheck, sequential, raised, toolVars, nwcVars, callVars>>

\* c obtains BudgetService._lock: line 134 reads _session_spent_sats and
\* awaits its conversion
cc_budget_lock_granted(c) ==
  /\ co[c].pc = "budget_lock_wait"
  /\ budget_lock = c
  /\ Install(GetPrice([Mach EXCEPT !.co[c].stage = "spent",
                                   !.co[c].spent_read = session.spent_sats], c))
  /\ UNCHANGED <<config, now, session, lastCheck, sequential, raised, toolVars, nwcVars, callVars>>

\* wallet.pay_invoice returns to c: record_spend and record_payment_time
cc_pay_done(c) ==
  /\ co[c].pc = "paying"
  /\ \E w \in {"preimage", "raise"} :
       IF w = "preimage"
       THEN /\ session' = record_payment_time(
                            record_spend(session, co[c].amount_sats, priceCache), now)
            /\ co' = [co EXCEPT ![c].pc = "done", ![c].recorded = TRUE]
       ELSE /\ co' = [co EXCEPT ![c].pc = "done"]
            /\ UNCHANGED session
  /\ UNCHANGED <<config, now, priceCache, lastCheck, sequential, raised, toolVars, nwcVars,
                 price_lock, budget_lock, cache_source, thresholds_cache_expiry,
                 recomputations, fetches, callVars>>

\* reset_session() while flows are in progress
cc_reset_session ==
  /\ session' = reset_session(session, now)
  /\ session' # session
  /\ UNCHANGED <<config, now, priceCache, lastCheck, sequential, raised, toolVars, nwcVars,
                 concVars, callVars>>

NextConc ==
  \/ \E c \in Callers :
       \/ cc_call(c)
       \/ cc_price_lock_granted(c)
       \/ cc_fetch_done(c)
       \/ cc_budget_lock_granted(c)
       \/ cc_pay_done(c)
  \/ cc_reset_session

SpecConc == Init /\ [][NextConc]_vars

----------------------------------------------------------------------------
(* Properties *)

AccessFlows == {f \in Flows : flow[f].tool = "access_l402_resource"}

\* the session's spend in USD as a decision made in this state converts it
SpentUsdNow == RoundHalfEven(session.spent_sats * priceCache.price, 1000)

Checked == lastCheck.level # "none"

\* C1: the wallet's pay_invoice is invoked by a tool operation only after a
\* check_approval_level call of that same operation returned a level other
\* than DENY.
C1_PayOnlyAfterApproval ==
  \A f \in Flows :
    flow[f].wallet_calls > 0 => flow[f].level \notin {"none", "DENY"}

\* C2: a fetch whose 402 challenge has a derived amount above max_sats fails
\* with L402BudgetExceededError, with no wallet payment and no second request.
C2_OverMaxNeverPays ==
  \A f \in AccessFlows :
    (flow[f].challenged /\ flow[f].amount_sats # None
       /\ flow[f].amount_sats > flow[f].max_sats)
    => /\ flow[f].pc = "done"
       /\ flow[f].exc = "L402BudgetExceededError"
       /\ flow[f].wallet_calls = 0
       /\ flow[f].http_requests = 1

C2_Witness ==
  \E f \in AccessFlows :
    /\ flow[f].pc = "done"
    /\ flow[f].first_status = 402
    /\ flow[f].challenged
    /\ flow[f].amount_sats # None
    /\ flow[f].amount_sats > flow[f].max_sats

\* C3: one fetch invokes wallet.pay_invoice at most once and issues the HTTP
\* request at most twice, whatever the two responses are.
C3_AtMostOnePayment ==
  \A f \in AccessFlows :
    flow[f].wallet_calls <= 1 /\ flow[f].http_requests <= 2

C3_Witness ==
  \E f \in AccessFlows :
    /\ flow[f].pc = "done"
    /\ flow[f].paid
    /\ flow[f].retry_status = 402
    /\ flow[f].wallet_calls = 1
    /\ flow[f].http_requests = 2

\* C4: with max_per_session set, no cooldown running and sequential use, a
\* check with spent USD + amount USD <= limit is not denied for the session
\* limit, and one with spent USD + amount USD > limit is denied.
C4_SessionLimitBoundary ==
  (Checked /\ sequential /\ config.max_per_session # None
     /\ now - session.last_payment_time >= config.cooldown_seconds)
  => /\ (SpentUsdNow + lastCheck.amount_usd <= config.max_per_session
           => lastCheck.denial # "session")
     /\ (SpentUsdNow + lastCheck.amount_usd > config.max_per_session
           => lastCheck.level = "DENY")

C4_Witness ==
  /\ Checked /\ sequential
  /\ config.max_per_session # None
  /\ session.spent_sats > 0
  /\ lastCheck.amount_usd > 0
  /\ SpentUsdNow + lastCheck.amount_usd = config.max_per_session
  /\ lastCheck.level # "DENY"

\* C5: with max_per_session set (0 included), every result of
\* check_approval_level has remaining_session_budget_usd =
\* max(0, max_per_session - spent USD).
C5_RemainingBudget ==
  (Checked /\ config.max_per_session # None)
  => lastCheck.remaining_session_budget_usd
       = Max(0, config.max_per_session - SpentUsdNow)

\* C6: when wallet.pay_invoice succeeded inside access_l402_resource, the
\* spend has been recorded by the time the tool returns, in every outcome.
C6_PaymentAlwaysRecorded ==
  \A f \in AccessFlows :
    (flow[f].pc = "done" /\ flow[f].paid) => flow[f].recorded

\* C7: when the invoice was paid and the retried request fails, the failure
\* given to the caller carries the amount paid and the preimage.
C7_FailureReportsPayment ==
  \A f \in AccessFlows :
    (flow[f].pc = "done" /\ flow[f].paid /\ flow[f].retry_status >= 400)
    => flow[f].reports_amount /\ flow[f].reports_preimage

\* C10 as stated: with first-payment approval disabled, every check of an
\* amount worth at most tiers.auto_approve returns AUTO_APPROVE, in every
\* session state.
C10_AutoApproveAlways ==
  (Checked /\ ~config.require_approval_for_first_payment
     /\ lastCheck.amount_usd <= config.auto_approve)
  => lastCheck.level = "AUTO_APPROVE"

NoDenialApplies ==
  /\ config.max_per_session # None
       => SpentUsdNow + lastCheck.amount_usd <= config.max_per_session
  /\ config.max_per_payment # None
       => lastCheck.amount_usd <= config.max_per_payment
  /\ now - session.last_payment_time >= config.cooldown_seconds

\* C10 amended: with first-payment approval disabled and none of the three
\* denials applying (session limit, per-payment limit, cooldown), a check of
\* an amount worth at most tiers.auto_approve returns AUTO_APPROVE, with
\* can_proceed true and requires_confirmation false.
C10_AutoApproveUnlessDenied ==
  (Checked /\ ~config.require_approval_for_first_payment
     /\ lastCheck.amount_usd <= config.auto_approve /\ NoDenialApplies)
  => /\ lastCheck.level = "AUTO_APPROVE"
     /\ can_proceed(lastCheck.level)
     /\ ~requires_confirmation(lastCheck.level)

C10_Witness ==
  /\ Checked
  /\ ~config.require_approval_for_first_payment
  /\ session.spent_sats > 0
  /\ lastCheck.amount_usd = config.auto_approve
  /\ lastCheck.level = "AUTO_APPROVE"

\* the session-limit or the per-payment denial, which check_approval_level
\* evaluates before the cooldown, applies to the checked amount
LimitDenialApplies ==
  \/ /\ config.max_per_session # None
     /\ SpentUsdNow + lastCheck.amount_usd > config.max_per_session
  \/ /\ config.max_per_payment # None
     /\ lastCheck.amount_usd > config.max_per_payment

CooldownRunning == now - session.last_payment_time < config.cooldown_seconds

C12_NegativeSpendRejected ==
  [][\A a \in SpendAmounts :
       (a < 0 /\ BsRecordSpend(a)) => (raised' = "ValueError" /\ session' = session)]_vars

C12_Witness ==
  /\ raised = "ValueError"
  /\ session.spent_sats > 0
  /\ session.request_count > 0
  /\ ~session.is_first_payment

\* C13: reset_session yields spent_sats = 0, spent_usd = 0, request_count = 0
\* and is_first_payment = TRUE, with session_started set to the current
\* time, whatever the session was before.
C13_ResetZeroes ==
  [][BsResetSession =>
       /\ session'.spent_sats = 0
       /\ session'.spent_usd = 0
       /\ session'.request_count = 0
       /\ session'.is_first_payment
       /\ session'.session_started = now]_vars

C13_Witness ==
  /\ session.session_started > 0
  /\ session.last_payment_time # DatetimeMin
  /\ session.spent_sats = 0
  /\ session.spent_usd = 0
  /\ session.request_count = 0
  /\ session.is_first_payment

FirstPaymentGating == session.is_first_payment /\ config.require_approval_for_first_payment

DefaultTiers ==
  /\ config.auto_approve = 100 /\ config.log_and_approve = 500
  /\ config.form_confirm = 2500 /\ config.url_confirm = 10000

\* C14: when no denial applies and first-payment gating does not apply, the
\* level is AUTO_APPROVE up to auto_approve, LOG_AND_APPROVE up to
\* log_and_approve, FORM_CONFIRM up to form_confirm and URL_CONFIRM for every
\* larger amount, at or below url_confirm or above it, never DENY; at
\* 100,000 USD/BTC with the default tiers 5,000 sats is LOG_AND_APPROVE and
\* 80,000 sats is URL_CONFIRM.
C14_TierMapping ==
  (Checked /\ NoDenialApplies /\ ~FirstPaymentGating)
  => /\ lastCheck.level =
          IF lastCheck.amount_usd <= config.auto_approve THEN "AUTO_APPROVE"
          ELSE IF lastCheck.amount_usd <= config.log_and_approve THEN "LOG_AND_APPROVE"
          ELSE IF lastCheck.amount_usd <= config.form_confirm THEN "FORM_CONFIRM"
          ELSE "URL_CONFIRM"
     /\ lastCheck.level # "DENY"
     /\ (DefaultTiers /\ priceCache.price = 100 /\ lastCheck.amount_sats = 5000)
          => lastCheck.level = "LOG_AND_APPROVE"
     /\ (DefaultTiers /\ priceCache.price = 100 /\ lastCheck.amount_sats = 80000)
          => lastCheck.level = "URL_CONFIRM"

C14_Witness ==
  /\ Checked /\ NoDenialApplies /\ ~FirstPaymentGating
  /\ lastCheck.amount_usd > config.url_confirm
  /\ lastCheck.level = "URL_CONFIRM"

C14_WitnessLogAndApprove ==
  /\ Checked /\ NoDenialApplies /\ ~FirstPaymentGating
  /\ DefaultTiers /\ priceCache.price = 100 /\ lastCheck.amount_sats = 5000
  /\ lastCheck.level = "LOG_AND_APPROVE"

\* C15: spent_sats and spent_usd never decrease across a step other than
\* reset_session.
C15_SpendMonotonic ==
  [][~BsResetSession =>
       /\ session'.spent_sats >= session.spent_sats
       /\ session'.spent_usd >= session.spent_usd]_vars

C15_Witness ==
  /\ session.request_count = 2
  /\ session.spent_sats >= 40000
  /\ session.spent_usd > 0
  /\ session.last_payment_time # DatetimeMin

Approved(c) == co[c].level \notin {"none", "DENY"}

\* C16: the check-then-act race.  Every check that returned a level other
\* than DENY was within max_per_session on the spend recorded when it read
\* the session, so the limit is exceeded only through spend recorded after
\* that read; C16_Witness is the race itself: two flows whose checks both
\* read the session before either record_spend, both approved, both
\* recorded, and the recorded session spend exceeds max_per_session.
C16_ApprovedOnSpendSeen ==
  \A c \in Callers :
    (Approved(c) /\ config.max_per_session # None)
    => co[c].seen_spent_usd + co[c].amount_usd <= config.max_per_session

C16_Witness ==
  /\ config.max_per_session # None
  /\ config.max_per_session > 0
  /\ \A c \in Callers :
       /\ Approved(c)
       /\ co[c].recorded
       /\ co[c].spent_read = 0
  /\ session.request_count = 2
  /\ co["a"].amount_usd + co["b"].amount_usd > config.max_per_session
  /\ session.spent_usd > config.max_per_session

\* C17: every decision of check_approval_level uses spent sats, last payment
\* time and first-payment flag of one and the same session state.
C17_ConsistentSnapshot ==
  \A c \in Callers : co[c].consistent

\* C18: the threshold cache is recomputed at most once while it is expired,
\* however the concurrent check_approval_level calls interleave.
C18_SingleRecomputation ==
  recomputations <= 1

\* C19: only one upstream fetch is made while the price cache is expired,
\* whether it succeeds or fails, and price, expiry and source are never
\* only partly updated.
C19_SingleRefresh ==
  /\ fetches <= 1
  /\ (cache_source = "none") <=> (priceCache.expiry = DatetimeMin)

\* C20: when the first response is not a 402, or is a 402 without a
\* WWW-Authenticate header or with a challenge that does not parse, fetch
\* ends there: wallet.pay_invoice is not invoked and no second request is
\* issued; in the error cases (status >= 400) it fails with L402Error.
C20_NoChallengeNoPayment ==
  \A f \in AccessFlows :
    (flow[f].http_requests >= 1 /\ flow[f].nothing_to_pay)
    => /\ flow[f].pc = "done"
       /\ flow[f].wallet_calls = 0
       /\ flow[f].http_requests = 1
       /\ flow[f].first_status >= 400 => flow[f].exc = "L402Error"
       /\ flow[f].first_status < 400 => flow[f].exc = "none"

C20_Witness ==
  \E f \in AccessFlows :
    /\ flow[f].pc = "done"
    /\ flow[f].first_status = 402
    /\ flow[f].nothing_to_pay
    /\ ~flow[f].challenged
    /\ flow[f].exc = "L402Error"
    /\ flow[f].wallet_calls = 0
    /\ flow[f].http_requests = 1

\* C8: once a _send_request call has returned or raised, its entry is no
\* longer in _pending_requests and a CLOSE for its subscription was sent.
C8_RequestReleased ==
  \A r \in Reqs :
    (req[r].pc = "done" /\ req[r].registered)
    => r \notin pending /\ req[r].close_sent

\* C9: once the connection has closed and the listener has ended, the wallet
\* is not connected and no request is still awaiting its response.
C9_DropFailsPending ==
  (ws = "closed" /\ listener # "running")
  => /\ ~connected
     /\ \A r \in Reqs : ~(req[r].pc = "wait" /\ req[r].future = "pending")

\* C21: every value NWCWallet.pay_invoice returns is a non-empty string of
\* the characters 0-9 and a-f; a response with an error, without a preimage,
\* with a preimage that starts with lnbc, lntb or lnurl, or with a non-hex
\* character after normalization raises NWCPaymentError.
C21_ReturnedIsHexProof ==
  /\ wallet_call.kind = "returned" =>
       /\ wallet_call.value # <<>>
       /\ \A i \in 1..Len(wallet_call.value) : wallet_call.value[i] \in HexDigits
  /\ wallet_call.kind # "none" =>
       LET r == wallet_call.response
       IN  (\/ r.error
            \/ ~r.has_preimage
            \/ startswith(r.preimage, <<"l", "n", "b", "c">>)
            \/ startswith(r.preimage, <<"l", "n", "t", "b">>)
            \/ startswith(r.preimage, <<"l", "n", "u", "r", "l">>)
            \/ \E i \in 1..Len(normalize_preimage(r.preimage)) :
                 normalize_preimage(r.preimage)[i] \notin HexDigits)
           => wallet_call.kind = "NWCPaymentError"

\* the per-request limit in force for a check: an override applies only when
\* it is below max_per_request
PerRequestLimit(bm, max_override) ==
  IF max_override # None /\ max_override < bm.max_per_request
  THEN max_override ELSE bm.max_per_request

\* C22: check_payment(amount, max_override) raises BudgetExceededError exactly
\* when the amount is above the lower of the override and max_per_request, or
\* above what remains of max_per_session; otherwise it returns, and in both
\* cases the manager is left as it was; an override never raises the limit.
C22_CheckPaymentLimits ==
  bm_last.op = "check_payment" =>
    /\ bm_last.raised <=>
         \/ bm_last.a > PerRequestLimit(budget_manager, bm_last.b)
         \/ bm_last.a > budget_manager.max_per_session - budget_manager.session_spent
    /\ bm_last.a > budget_manager.max_per_request => bm_last.raised
    /\ budget_manager = bm_last.before

\* a check of an amount within its override and above max_per_request: the
\* override does not rescue it
C22_Witness ==
  /\ bm_last.op = "check_payment"
  /\ bm_last.raised
  /\ bm_last.b # None
  /\ bm_last.b > budget_manager.max_per_request
  /\ bm_last.a <= bm_last.b
  /\ bm_last.a > budget_manager.max_per_request

RECURSIVE SuccessTotal(_)
SuccessTotal(payments) ==
  IF payments = <<>> THEN 0
  ELSE (IF Head(payments).status = "success" THEN Head(payments).amount_sats ELSE 0)
       + SuccessTotal(Tail(payments))

\* C23: after any sequence of record_payment calls session_spent is the sum
\* of the amounts recorded with status success, and payments holds one record
\* per call; a failed or pending record is appended without changing
\* session_spent.
C23_SpentIsSuccessTotal ==
  /\ budget_manager.session_spent = SuccessTotal(budget_manager.payments)
  /\ Len(budget_manager.payments) = bm_last.record_calls
  /\ bm_last.op = "record_payment" =>
       /\ budget_manager.payments[Len(budget_manager.payments)] =
            [amount_sats |-> bm_last.a, status |-> bm_last.b]
       /\ bm_last.b # "success" =>
            budget_manager.session_spent = bm_last.before.session_spent

C23_Witness ==
  /\ bm_last.op = "record_payment"
  /\ bm_last.b = "failed"
  /\ bm_last.a > 0
  /\ Len(budget_manager.payments) = 2
  /\ budget_manager.payments[1].status = "success"
  /\ budget_manager.session_spent = budget_manager.payments[1].amount_sats

\* C24: a BudgetManager constructed with no arguments starts with
\* max_per_request = 1000 and max_per_session = 10000.
C24_DefaultLimits ==
  (bm_last.op = "construct" /\ bm_last.a = None /\ bm_last.b = None) =>
    /\ budget_manager.max_per_request = 1000
    /\ budget_manager.max_per_session = 10000

\* the pay_invoice calls that have returned after wallet.pay_invoice returned
\* a value
PayInvoiceAnswered ==
  {f \in Flows : /\ flow[f].tool = "pay_invoice"
                 /\ flow[f].pc = "done"
                 /\ flow[f].wallet_calls = 1
                 /\ flow[f].exc = "none"}

\* C25: in the pay_invoice tool with a BudgetManager, a wallet that returns
\* no preimage leaves exactly one record with status failed and session_spent
\* unchanged; a wallet that returns a preimage leaves exactly one record with
\* status success and session_spent increased by max_sats.
C25_PayInvoiceRecordsInManager ==
  \A f \in PayInvoiceAnswered :
    /\ ~flow[f].paid =>
         flow[f].bm_appended = <<"failed">> /\ flow[f].bm_added = 0
    /\ flow[f].paid =>
         flow[f].bm_appended = <<"success">> /\ flow[f].bm_added = flow[f].max_sats

\* C26: neither get_status nor check_approval_level changes the session's
\* spent sats, spent USD, request count, first-payment flag, last payment time
\* or start time, whatever they return.
C26_ReadOnlyOperations ==
  [][(lastStatus' # NoStatus \/ lastCheck' # NoCheck) => session' = session]_vars

\* get_status has reported a session with spend, inside its cooldown
C26_Witness ==
  /\ lastStatus # NoStatus
  /\ lastStatus.spentSats > 0
  /\ lastStatus.requestCount = session.request_count
  /\ lastStatus.cooldownActive

\* C27: no sequence of tool operations changes the spending limits enforced
\* on payments: the limits in force stay those the server started with, and
\* no payment made through a tool is above a limit that gated it at start.
C27_LimitsNeverChange ==
  /\ budget_manager.max_per_request = NewBudgetManager.max_per_request
  /\ budget_manager.max_per_session = NewBudgetManager.max_per_session
  /\ \A f \in Flows :
       (flow[f].tool = "pay_l402_challenge" /\ flow[f].paid /\ flow[f].amount_sats # None)
         => flow[f].amount_sats <= NewBudgetManager.max_per_request

\* the session limit denies the checked amount on the spend the check saw
SessionDenies ==
  /\ config.max_per_session # None
  /\ lastCheck.session_spent_usd + lastCheck.amount_usd > config.max_per_session

PaymentDenies ==
  /\ config.max_per_payment # None
  /\ lastCheck.amount_usd > config.max_per_payment

\* C28: check_approval_level evaluates the denials in the order session
\* limit, per-payment limit, cooldown: the reason returned is that of the first
\* condition that holds, and a level other than DENY (first-payment gating or
\* a tier) is returned only when none of the three holds.
C28_DenialOrder ==
  Checked =>
    /\ lastCheck.denial =
         (IF SessionDenies THEN "session"
          ELSE IF PaymentDenies THEN "payment"
          ELSE IF CooldownRunning THEN "cooldown"
          ELSE "none")
    /\ lastCheck.level = "DENY" <=> (SessionDenies \/ PaymentDenies \/ CooldownRunning)
    /\ lastCheck.level # "DENY" =>
         lastCheck.level =
           (IF session.is_first_payment /\ config.require_approval_for_first_payment
            THEN (IF lastCheck.amount_usd > config.form_confirm
                  THEN "URL_CONFIRM" ELSE "FORM_CONFIRM")
            ELSE TierLevel(lastCheck.amount_usd, config))

\* the per-payment limit and the cooldown both hold and the session limit
\* does not: the reason is the per-payment limit
C28_Witness ==
  /\ Checked
  /\ ~SessionDenies
  /\ PaymentDenies
  /\ CooldownRunning
  /\ lastCheck.denial = "payment"

\* C29: with require_approval_for_first_payment enabled and no denial
\* applying, a check made while no record_spend has occurred since the session
\* was created or last reset returns FORM_CONFIRM for an amount of at most
\* tiers.form_confirm and URL_CONFIRM above it; after the first record_spend
\* the level follows the tier thresholds, until the next reset_session.
C29_FirstPaymentConfirmed ==
  (/\ Checked
   /\ config.require_approval_for_first_payment
   /\ ~SessionDenies /\ ~PaymentDenies /\ ~CooldownRunning)
  => IF session.request_count = 0
     THEN lastCheck.level = (IF lastCheck.amount_usd <= config.form_confirm
                             THEN "FORM_CONFIRM" ELSE "URL_CONFIRM")
     ELSE lastCheck.level = TierLevel(lastCheck.amount_usd, config)

\* in a session started by reset_session, with no spend recorded since, an
\* amount within tiers.auto_approve needs confirmation
C29_Witness ==
  /\ Checked
  /\ config.require_approval_for_first_payment
  /\ session.session_started > 0
  /\ session.request_count = 0
  /\ lastCheck.amount_usd <= config.auto_approve
  /\ lastCheck.level = "FORM_CONFIRM"

\* C30: record_spend(a) with a >= 0 adds a to spent_sats, a converted at the
\* last cached price and rounded to cents to spent_usd, and 1 to
\* request_count, clears is_first_payment, and leaves last_payment_time,
\* session_started, the price cache and the configuration alone; it checks no
\* limit and does not fail, whatever the new total.
C30_RecordSpendEffect ==
  [][\A a \in SpendAmounts :
       (a >= 0 /\ BsRecordSpend(a)) =>
         /\ session'.spent_sats = session.spent_sats + a
         /\ session'.spent_usd = session.spent_usd + RoundHalfEven(a * priceCache.price, 1000)
         /\ session'.request_count = session.request_count + 1
         /\ ~session'.is_first_payment
         /\ session'.last_payment_time = session.last_payment_time
         /\ session'.session_started = session.session_started
         /\ priceCache' = priceCache
         /\ config' = config
         /\ raised' = "none"]_vars

\* spend recorded beyond max_per_session, part of it at a fetched price other
\* than the fallback
C30_Witness ==
  /\ raised = "none"
  /\ lastCheck = NoCheck
  /\ session.request_count = 2
  /\ config.max_per_session # None
  /\ config.max_per_session > 0
  /\ session.spent_usd > config.max_per_session
  /\ session.spent_usd # RoundHalfEven(session.spent_sats * DEFAULT_FALLBACK_PRICE, 1000)

\* the pay_invoice and access_l402_resource calls that have their decision
GatedFlows ==
  {f \in Flows : /\ flow[f].tool \in {"pay_invoice", "access_l402_resource"}
                 /\ flow[f].level # "none"}

NothingInvoked(f) ==
  /\ flow[f].pc = "done"
  /\ flow[f].wallet_calls = 0
  /\ flow[f].http_requests = 0

UnknownAmountFlows ==
  {f \in Flows : /\ flow[f].tool \in {"access_l402_resource", "pay_challenge"}
                 /\ flow[f].amount_unknown}

\* C32: when the invoice's amount cannot be derived (the decoder fails, or
\* the invoice has no amount or a zero amount), fetch and pay_challenge skip
\* the max_sats comparison and invoke wallet.pay_invoice once; fetch then
\* reports the amount paid as None.
C32_UnknownAmountStillPaid ==
  \A f \in UnknownAmountFlows :
    /\ flow[f].amount_sats = None
    /\ flow[f].exc # "L402BudgetExceededError"
    /\ \/ flow[f].pc = "pay" /\ flow[f].wallet_calls = 0
       \/ flow[f].wallet_calls = 1
    /\ flow[f].tool = "access_l402_resource" => ~flow[f].reports_amount

\* a fetch that paid an invoice of unknown amount and got the resource, and
\* a pay_challenge that paid one
C32_Witness ==
  /\ \E f \in UnknownAmountFlows :
       /\ flow[f].tool = "access_l402_resource"
       /\ flow[f].paid
       /\ flow[f].result = "success"
  /\ \E f \in UnknownAmountFlows :
       /\ flow[f].tool = "pay_challenge"
       /\ flow[f].paid

\* the step of r on which its request EVENT goes out
EventSent(r) == req[r].pc = "publish" /\ req'[r].pc = "wait"

\* C33: in every _send_request the pending entry is registered and the REQ
\* subscription sent before the request EVENT is sent: on the step that sends
\* the EVENT and for as long as the call waits, the entry is in
\* _pending_requests, so the response to the request finds it.
C33_RegisteredBeforeEvent ==
  /\ [][\A r \in Reqs :
          EventSent(r) => /\ req[r].registered
                          /\ req[r].sub_sent
                          /\ r \in pending
                          /\ Resolves(ResponseFrame(r), pending') = {r}]_vars
  /\ [](\A r \in Reqs :
          req[r].pc = "wait" => /\ req[r].registered
                                /\ Resolves(ResponseFrame(r), pending) = {r})

\* a response has arrived for a call that sent its EVENT and still waits
C33_Witness ==
  \E r \in Reqs : /\ req[r].pc = "wait"
                  /\ req[r].future = "result"
                  /\ req[r].sub_sent

\* the requests whose future changes on the step
ResolvedByStep == {r \in Reqs : req'[r].future # req[r].future}

\* a frame of the response kind, addressed to the local key, that decrypts
IsResponse(fr) == fr.kind = 23195 /\ fr.p /\ fr.decrypts

\* C34: with several requests pending, a response resolves exactly the
\* pending request whose event id equals its e tag, in whatever order the
\* responses come; an event not of the response kind, without a p tag equal
\* to the local public key, or whose e tag matches no pending request
\* resolves nothing.
C34_ResponseCorrelation ==
  [][\A fr \in Frames :
       ProcessMessage(fr) =>
         /\ (/\ IsResponse(fr)
             /\ fr.e \in pending
             /\ req[fr.e].future = "pending")
            => /\ ResolvedByStep = {fr.e}
               /\ req'[fr.e].future = "result"
         /\ (fr.kind # 23195 \/ ~fr.p \/ fr.e \notin pending)
            => ResolvedByStep = {}]_vars

\* both requests await their responses and the response to r2 has come
\* while r1 still waits for its own
C34_Witness ==
  /\ \A r \in Reqs : req[r].pc = "wait" /\ r \in pending
  /\ req["r1"].future = "pending"
  /\ req["r2"].future = "result"

\* every _send_request call that has started returns or raises
SendRequestTerminates ==
  \A r \in Reqs : (req[r].pc # "idle") ~> (req[r].pc = "done")

\* C35: every _send_request call eventually completes: it returns the
\* response when a correlated one has arrived, and otherwise raises the
\* timeout NWCError; no call stays pending forever.  That no call stays
\* pending is SendRequestTerminates; this is what a completed call delivers.
C35_CompletesWithResponseOrTimeout ==
  \A r \in Reqs :
    req[r].pc = "done" =>
      req[r].outcome = IF req[r].future = "result" THEN "response" ELSE "NWCError"

\* a call whose response had arrived and that raised nevertheless
C35_ResponseLost ==
  \E r \in Reqs : /\ req[r].pc = "done"
                  /\ req[r].future = "result"
                  /\ req[r].outcome = "ConnectionClosed"

\* the relay sockets of the wallet that are open, and its listener tasks
\* that run
OpenSockets ==
  (IF ws = "open" THEN 1 ELSE 0) + (IF replaced.ws = "open" THEN 1 ELSE 0)

ListenerTasks ==
  (IF listener = "running" THEN 1 ELSE 0)
  + (IF replaced.listener = "running" THEN 1 ELSE 0)

\* C36: one NWCWallet has at most one listener task and at most one open
\* relay socket at any time, also when two _send_request calls start while
\* the wallet is not connected and when it reconnects after a drop or a
\* disconnect.
C36_SingleConnection == OpenSockets <= 1 /\ ListenerTasks <= 1

\* every conversion so far was made at the price the service started with:
\* a fetched price stays cached for longer than the model runs
ConstantPrice == priceCache.price = DEFAULT_FALLBACK_PRICE

\* the USD value of the session's sats before rounding, in thousandths of a
\* cent
ExactSpentUsd == session.spent_sats * get_cached_btc_price(priceCache)

\* C37: at a constant price, when every record_spend(a) follows its own
\* approving check(a), the exact USD value of the sats spent in the session
\* never exceeds max_per_session, sub-cent amounts included.
C37_ExactSpendWithinLimit ==
  (sequential /\ ConstantPrice /\ config.max_per_session # None)
  => ExactSpentUsd <= config.max_per_session * 1000

\* remaining_session_budget_usd of a check_approval_level(a) made now, at
\* the cached price
CheckRemaining(a) ==
  LET p == get_cached_btc_price(priceCache)
  IN  check_approval_level(a, p, p, session, config, now).remaining_session_budget_usd

\* C38: at a constant price, remainingUsd of get_status equals
\* remaining_session_budget_usd of check_approval_level in the same state:
\* the accumulated session USD and the conversion of the session's sats do
\* not diverge.
C38_StatusAgreesWithCheck ==
  ConstantPrice =>
    /\ session.spent_usd = SpentUsdNow
    /\ \A a \in CheckAmounts :
         get_status(session, config, priceCache, now).remainingUsd = CheckRemaining(a)

\* the session was reset after its latest record_payment_time
ResetAfterPayment ==
  /\ session.last_payment_time # DatetimeMin
  /\ session.last_payment_time < session.session_started

ResetKeepsLastPayment ==
  [][BsResetSession => session'.last_payment_time = session.last_payment_time]_vars

\* C39 as stated: reset_session leaves the last payment time unchanged, and
\* a check made after the reset, before cooldown_seconds have elapsed since
\* the record_payment_time that preceded it, returns DENY for the cooldown
\* reason.
C39_CooldownDenyAfterReset ==
  /\ ResetKeepsLastPayment
  /\ []((Checked /\ ResetAfterPayment /\ CooldownRunning)
          => (lastCheck.level = "DENY" /\ lastCheck.denial = "cooldown"))

\* C39 amended: reset_session leaves the last payment time unchanged, and a
\* check made after the reset, before cooldown_seconds have elapsed since the
\* record_payment_time that preceded it, returns DENY: for the cooldown
\* reason unless the session limit or the per-payment limit denies the amount
\* first.
C39_ResetKeepsCooldown ==
  /\ ResetKeepsLastPayment
  /\ []((Checked /\ ResetAfterPayment /\ CooldownRunning)
          => /\ lastCheck.level = "DENY"
             /\ ~LimitDenialApplies
                  => (lastCheck.denial = "cooldown" /\ lastCheck.cooldown_remaining > 0)
             /\ LimitDenialApplies => lastCheck.denial \in {"session", "payment"})

\* a check denied for the cooldown of a payment recorded before the reset
C39_Witness ==
  /\ Checked
  /\ ResetAfterPayment
  /\ CooldownRunning
  /\ session.spent_sats = 0
  /\ session.is_first_payment
  /\ lastCheck.denial = "cooldown"

\* fr answers a request whose future was resolved before, or one that has
\* returned or timed out and whose entry has been removed
LateOrDuplicate(fr) ==
  /\ IsResponse(fr)
  /\ fr.e \in Reqs
  /\ \/ fr.e \in pending /\ req[fr.e].future = "result"
     \/ fr.e \notin pending /\ req[fr.e].pc = "done" /\ req[fr.e].registered

\* C40: a pending request is resolved at most once: a second response with
\* the same request id, or a response that arrives after the request timed
\* out and its entry was removed, changes neither the result delivered to
\* the caller nor any other request, and does not stop the listener.
C40_ResolvedAtMostOnce ==
  [][/\ \A r \in Reqs :
          req[r].response # "none" => req'[r].response = req[r].response
     /\ \A fr \in Frames :
          (LateOrDuplicate(fr) /\ ProcessMessage(fr))
            => (req' = req /\ listener' = listener /\ replaced' = replaced)]_vars

\* the listener, running on an open socket, has resolved one request with
\* the first content and the call has not resumed yet, so that a second
\* response finds the entry with its future done; the other request has
\* timed out and a response to it would come late
C40_Witness ==
  /\ listener = "running"
  /\ ws = "open"
  /\ \E r \in Reqs :
       /\ req[r].pc = "wait"
       /\ r \in pending
       /\ req[r].future = "result"
       /\ req[r].response = "a"
       /\ LateOrDuplicate([ResponseFrame(r) EXCEPT !.content = "b"])
  /\ \E r \in Reqs :
       /\ req[r].outcome = "NWCError"
       /\ req[r].future = "cancelled"
       /\ LateOrDuplicate(ResponseFrame(r))

====
